---- MODULE Spec2Model ----
(***************************************************************************)
(* gfx-glyph, src/glyph_calculator.rs: the GlyphCalculator section cache   *)
(* (a Mutex-guarded map from section hash to GlyphedSection), the          *)
(* GlyphCalculatorGuard cache scope that marks the hashes it touches and   *)
(* sweeps the rest when dropped, and GlyphedSection::pixel_bounds, the     *)
(* reducer from glyph pixel boxes to one integer rectangle.                *)
(***************************************************************************)
EXTENDS Integers, Sequences, FiniteSets, TLC

VARIABLES
    calculate_glyph_cache, \* GlyphCalculator.calculate_glyph_cache: calc -> (hash -> GlyphedSection)
    mutex,                 \* the Mutex's owner: calc -> thread holding the MutexGuard, or NoThread
    poisoned,              \* the Mutex's poison flag: calc -> BOOLEAN
    pc,                    \* thread -> "idle" | "waiting" | "open" | "panicking" | "failed"
    guard_of,              \* thread -> the calculator its cache_scope() call / guard refers to
    cached,                \* GlyphCalculatorGuard.cached: thread -> set of hashes
    queries,               \* thread -> number of queries made through its guard
    computed,              \* thread -> (hash -> number of positioner runs in its scope)
    answers,               \* thread -> (query -> set of values returned for it in its scope)
    inherited,             \* thread -> the hashes its scope found in the cache when it opened
    swept,                 \* calc -> what the last drop saw: the keys before it, the touched set
    glyphed,               \* the GlyphedSection a reducer run works on
    fptosi,                \* how the build casts an out-of-range f32 to i32
    out,                   \* the last value the reducer run returned
    stage,                 \* the builder: "new" | "building" | "panicked" | "built"
    font_data,             \* GlyphCalculatorBuilder.font_data: sequence of fonts
    section_hasher,        \* GlyphCalculatorBuilder.section_hasher / GlyphCalculator.section_hasher
    fonts,                 \* GlyphCalculator.fonts: font id -> font, once built
    given,                 \* the fonts the builder was constructed with, in order
    font_ids               \* what add_font / add_font_bytes returned: sequence of [id, font]

vars == <<calculate_glyph_cache, mutex, poisoned, pc, guard_of, cached,
          queries, computed, answers, inherited, swept, glyphed, fptosi, out,
          stage, font_data, section_hasher, fonts, given, font_ids>>

cacheVars == <<calculate_glyph_cache, mutex, poisoned, pc, guard_of, cached,
               queries, computed, answers, inherited, swept>>

reducerVars == <<glyphed, fptosi, out>>

builderVars == <<stage, font_data, section_hasher, fonts, given, font_ids>>

(***************************************************************************)
(* Numbers.  A Rect<i32> coordinate is a 32-bit integer; the code only     *)
(* compares and copies them.  An f32 is a tagged value: "fin" carries the  *)
(* value in halves (n/2), the other tags are the values a cast treats      *)
(* specially.                                                              *)
(***************************************************************************)
I32_MAX == 2147483647

I32_MIN == -2147483647 - 1

Fin(n) == [k |-> "fin", n |-> n]

NaN == [k |-> "nan", n |-> 0]

PInf == [k |-> "pinf", n |-> 0]

NInf == [k |-> "ninf", n |-> 0]

\* a finite f32 above 2^31, and one below -2^31
Big == [k |-> "big", n |-> 0]

NegBig == [k |-> "negbig", n |-> 0]

\* exactly 2^31, the value of `i32::MAX as f32`
Two31 == [k |-> "two31", n |-> 0]

\* f32::floor and f32::ceil; the result is integral, "fin" keeps it in halves
floor(f) == IF f.k = "fin" THEN Fin(2 * (f.n \div 2)) ELSE f

ceil(f) == IF f.k = "fin" THEN Fin(2 * (-((-f.n) \div 2))) ELSE f

\* `f as i32` for an integral f.  In range it is exact.  Out of range or NaN
\* the cast saturates (NaN to 0) on a toolchain that defines it, and yields
\* the integer indefinite value i32::MIN where it is left to the hardware.
f32_as_i32(f, mode) ==
    CASE f.k = "fin" -> f.n \div 2
      [] f.k \in {"ninf", "negbig"} -> I32_MIN
      [] f.k = "nan" -> IF mode = "saturating" THEN 0 ELSE I32_MIN
      [] OTHER -> IF mode = "saturating" THEN I32_MAX ELSE I32_MIN

\* `ceil > i32::MAX as f32`
gt_i32_max_as_f32(f) == f.k \in {"big", "pinf"}

\* max_to_i32 without its test against i32::MAX: the ceiling is cast as it is
max_to_i32_unguarded(max, mode) == f32_as_i32(ceil(max), mode)

max_to_i32(max, mode) ==
    LET c == ceil(max)
    IN  IF gt_i32_max_as_f32(c) THEN I32_MAX ELSE f32_as_i32(c, mode)

point(x, y) == [x |-> x, y |-> y]

Rect(min, max) == [min |-> min, max |-> max]

\* Option<T> as a sequence: <<>> is None, <<v>> is Some(v)
None == <<>>

Some(v) == <<v>>

IMax(a, b) == IF a >= b THEN a ELSE b

IMin(a, b) == IF a <= b THEN a ELSE b

(***************************************************************************)
(* GlyphedSection.  A glyph is the tuple (PositionedGlyph, Color, FontId); *)
(* of the PositionedGlyph the model keeps an identity and the value of     *)
(* pixel_bounding_box(), an Option<Rect<i32>>.                             *)
(***************************************************************************)
PositionedGlyph(id, bb) == [id |-> id, bb |-> bb]

GlyphedSection(bounds, gs, z) == [bounds |-> bounds, glyphs |-> gs, z |-> z]

layout_bounds(bounds, mode) ==
    Rect(point(f32_as_i32(floor(bounds.min.x), mode), f32_as_i32(floor(bounds.min.y), mode)),
         point(max_to_i32(bounds.max.x, mode), max_to_i32(bounds.max.y, mode)))

\* inside_layout that tests the overlap but returns the glyph box unclamped
inside_layout_unclamped(lb, rect) ==
    IF \/ rect.max.x < lb.min.x
       \/ rect.max.y < lb.min.y
       \/ rect.min.x > lb.max.x
       \/ rect.min.y > lb.max.y
    THEN None
    ELSE Some(rect)

\* inside_layout with <= and >= : a box that only touches an edge is discarded
inside_layout_open(lb, rect) ==
    IF \/ rect.max.x <= lb.min.x
       \/ rect.max.y <= lb.min.y
       \/ rect.min.x >= lb.max.x
       \/ rect.min.y >= lb.max.y
    THEN None
    ELSE Some(Rect(point(IMax(rect.min.x, lb.min.x), IMax(rect.min.y, lb.min.y)),
                   point(IMin(rect.max.x, lb.max.x), IMin(rect.max.y, lb.max.y))))

\* the closure inside_layout, for the layout rectangle lb
inside_layout(lb, rect) ==
    IF \/ rect.max.x < lb.min.x
       \/ rect.max.y < lb.min.y
       \/ rect.min.x > lb.max.x
       \/ rect.min.y > lb.max.y
    THEN None
    ELSE Some(Rect(point(IMax(rect.min.x, lb.min.x), IMax(rect.min.y, lb.min.y)),
                   point(IMin(rect.max.x, lb.max.x), IMin(rect.max.y, lb.max.y))))

\* the loop body without the `no_match ||` tests: the first box is compared
\* with the (0,0)-(0,0) accumulator
reduce_step_polluted(acc, r) ==
    LET pb == acc.pixel_bounds
    IN  [no_match |-> FALSE,
         pixel_bounds |->
            Rect(point(IF r.min.x < pb.min.x THEN r.min.x ELSE pb.min.x,
                       IF r.min.y < pb.min.y THEN r.min.y ELSE pb.min.y),
                 point(IF r.max.x > pb.max.x THEN r.max.x ELSE pb.max.x,
                       IF r.max.y > pb.max.y THEN r.max.y ELSE pb.max.y))]

\* one pass of the for loop's body over the accumulator acc = (no_match, pixel_bounds)
reduce_step(acc, r) ==
    LET nm == acc.no_match
        pb == acc.pixel_bounds
    IN  [no_match |-> FALSE,
         pixel_bounds |->
            Rect(point(IF nm \/ r.min.x < pb.min.x THEN r.min.x ELSE pb.min.x,
                       IF nm \/ r.min.y < pb.min.y THEN r.min.y ELSE pb.min.y),
                 point(IF nm \/ r.max.x > pb.max.x THEN r.max.x ELSE pb.max.x,
                       IF nm \/ r.max.y > pb.max.y THEN r.max.y ELSE pb.max.y))]

\* the for loop: glyphs i..Len in order, through both filter_maps
RECURSIVE reduce_loop(_, _, _, _)
reduce_loop(gs, lb, i, acc) ==
    IF i > Len(gs) THEN acc
    ELSE LET bb == gs[i][1].bb
             kept == IF bb = None THEN None ELSE inside_layout(lb, bb[1])
         IN  reduce_loop(gs, lb, i + 1,
                         IF kept = None THEN acc ELSE reduce_step(acc, kept[1]))

GlyphedSection_pixel_bounds(self, mode) ==
    LET lb == layout_bounds(self.bounds, mode)
        start == [no_match |-> TRUE,
                  pixel_bounds |-> Rect(point(0, 0), point(0, 0))]
        end == reduce_loop(self.glyphs, lb, 1, start)
    IN  IF end.no_match THEN None ELSE Some(end.pixel_bounds)

\* glyphs() that yields only the glyphs whose box overlaps the layout bounds
RECURSIVE glyphs_inside(_, _, _)
glyphs_inside(gs, lb, i) ==
    IF i > Len(gs) THEN <<>>
    ELSE LET bb == gs[i][1].bb
             rest == glyphs_inside(gs, lb, i + 1)
         IN  IF bb # None /\ inside_layout(lb, bb[1]) # None
             THEN <<gs[i][1]>> \o rest
             ELSE rest

GlyphedSection_glyphs_inside(self) ==
    glyphs_inside(self.glyphs, layout_bounds(self.bounds, "saturating"), 1)

GlyphedSection_glyphs(self) == [i \in 1..Len(self.glyphs) |-> self.glyphs[i][1]]

(***************************************************************************)
(* The world the calculator is used in: caller threads, calculators,       *)
(* sections, positioners, and what the section hasher and the positioners  *)
(* make of them.                                                           *)
(***************************************************************************)
Threads == {"t1", "t2"}

NoThread == "nobody"

Calcs == {"c1", "c2"}

NoCalc == "nocalc"

Sections == {"s1", "s2"}

Layouts == {"l1", "l2"}

\* queries a thread may make through one guard
MaxQueries == 3

\* section.layout, the positioner pixel_bounds and glyphs pass on
section_layout(s) == IF s = "s1" THEN "l1" ELSE "l2"

\* section.z
section_z(s) == IF s = "s1" THEN 1 ELSE 2

\* hasher.finish() after section.hash and layout.hash: a u64.  The hasher is
\* not injective: (s1, l2) and (s2, l2) collide.
section_hash(s, l) ==
    CASE s = "s1" /\ l = "l1" -> 1
      [] s = "s1" /\ l = "l2" -> 2
      [] s = "s2" /\ l = "l1" -> 3
      [] OTHER -> 2

Hashes == {section_hash(s, l) : s \in Sections, l \in Layouts}

Box(x0, y0, x1, y1) == Some(Rect(point(x0, y0), point(x1, y1)))

Glyph(id, bb) == <<PositionedGlyph(id, bb), "color", 0>>

\* layout.bounds_rect(section): a deterministic function of the pair
bounds_rect(s, l) ==
    CASE s = "s1" /\ l = "l1" -> Rect(point(Fin(0), Fin(0)), point(PInf, Fin(40)))
      [] s = "s1" /\ l = "l2" -> Rect(point(Fin(1), Fin(1)), point(Fin(21), Fin(21)))
      [] s = "s2" /\ l = "l1" -> Rect(point(Fin(0), Fin(0)), point(Fin(20), Fin(20)))
      [] OTHER -> Rect(point(Fin(0), Fin(0)), point(Fin(20), Fin(20)))

\* layout.calculate_glyphs(fonts, section): a deterministic function of the pair.
\* (s1, l1) has a glyph above its bounds and a whitespace glyph; (s1, l2)
\* overshoots its bounds; (s2, l1) has no text; (s2, l2) lies outside its bounds.
calculate_glyphs(s, l) ==
    CASE s = "s1" /\ l = "l1" ->
            <<Glyph("H", Box(1, -14, 9, -2)), Glyph(" ", None), Glyph("W", Box(1, 6, 12, 18))>>
      [] s = "s1" /\ l = "l2" ->
            <<Glyph("H", Box(-1, 2, 6, 13))>>
      [] s = "s2" /\ l = "l1" -> <<>>
      [] OTHER ->
            <<Glyph("x", Box(12, 2, 15, 8))>>

(***************************************************************************)
(* GlyphCalculator::cache_scope.  lock() blocks until the Mutex is free;   *)
(* on a poisoned Mutex it returns Err and unwrap() panics.                 *)
(***************************************************************************)
KeysOf(c) == DOMAIN calculate_glyph_cache[c]

NoAnswers == [q \in (Sections \X Layouts \X {"pixel_bounds", "glyphs"}) |-> {}]

NoRuns == [h \in Hashes |-> 0]

NoSweep == [inherited |-> {}, before |-> {}, touched |-> {}, by |-> NoThread]

\* the thread enters cache_scope() and reaches lock()
cache_scope(t, c) ==
    /\ pc[t] = "idle"
    /\ pc' = [pc EXCEPT ![t] = "waiting"]
    /\ guard_of' = [guard_of EXCEPT ![t] = c]
    /\ UNCHANGED <<calculate_glyph_cache, mutex, poisoned, cached, queries,
                   computed, answers, inherited, swept>>
    /\ UNCHANGED reducerVars
    /\ UNCHANGED builderVars

\* lock() that does not wait for the owner to unlock
lock_ok_no_wait(t) ==
    /\ pc[t] = "waiting"
    /\ ~poisoned[guard_of[t]]
    /\ mutex' = [mutex EXCEPT ![guard_of[t]] = t]
    /\ pc' = [pc EXCEPT ![t] = "open"]
    /\ cached' = [cached EXCEPT ![t] = {}]
    /\ inherited' = [inherited EXCEPT ![t] = KeysOf(guard_of[t])]
    /\ swept' = [swept EXCEPT ![guard_of[t]] = NoSweep]
    /\ UNCHANGED <<calculate_glyph_cache, poisoned, guard_of, queries, computed, answers>>
    /\ UNCHANGED reducerVars
    /\ UNCHANGED builderVars

\* a lock_ok whose guard starts with every stored hash already marked
lock_ok_marks_stored(t) ==
    /\ pc[t] = "waiting"
    /\ mutex[guard_of[t]] = NoThread
    /\ ~poisoned[guard_of[t]]
    /\ mutex' = [mutex EXCEPT ![guard_of[t]] = t]
    /\ pc' = [pc EXCEPT ![t] = "open"]
    /\ cached' = [cached EXCEPT ![t] = KeysOf(guard_of[t])]
    /\ inherited' = [inherited EXCEPT ![t] = KeysOf(guard_of[t])]
    /\ swept' = [swept EXCEPT ![guard_of[t]] = NoSweep]
    /\ UNCHANGED <<calculate_glyph_cache, poisoned, guard_of, queries, computed, answers>>
    /\ UNCHANGED reducerVars
    /\ UNCHANGED builderVars

\* a lock_ok for one lock shared by all calculators
lock_ok_shared_lock(t) ==
    /\ pc[t] = "waiting"
    /\ \A c \in Calcs : mutex[c] = NoThread
    /\ ~poisoned[guard_of[t]]
    /\ mutex' = [mutex EXCEPT ![guard_of[t]] = t]
    /\ pc' = [pc EXCEPT ![t] = "open"]
    /\ cached' = [cached EXCEPT ![t] = {}]
    /\ inherited' = [inherited EXCEPT ![t] = KeysOf(guard_of[t])]
    /\ swept' = [swept EXCEPT ![guard_of[t]] = NoSweep]
    /\ UNCHANGED <<calculate_glyph_cache, poisoned, guard_of, queries, computed, answers>>
    /\ UNCHANGED reducerVars
    /\ UNCHANGED builderVars

\* lock() returns Ok: the guard is built with an empty `cached`
lock_ok(t) ==
    /\ pc[t] = "waiting"
    /\ mutex[guard_of[t]] = NoThread
    /\ ~poisoned[guard_of[t]]
    /\ mutex' = [mutex EXCEPT ![guard_of[t]] = t]
    /\ pc' = [pc EXCEPT ![t] = "open"]
    /\ cached' = [cached EXCEPT ![t] = {}]
    /\ inherited' = [inherited EXCEPT ![t] = KeysOf(guard_of[t])]
    /\ swept' = [swept EXCEPT ![guard_of[t]] = NoSweep]
    /\ UNCHANGED <<calculate_glyph_cache, poisoned, guard_of, queries, computed, answers>>
    /\ UNCHANGED reducerVars
    /\ UNCHANGED builderVars

\* lock() whose PoisonError is recovered with into_inner(): a guard is returned
lock_recovers_poison(t) ==
    /\ pc[t] = "waiting"
    /\ mutex[guard_of[t]] = NoThread
    /\ poisoned[guard_of[t]]
    /\ mutex' = [mutex EXCEPT ![guard_of[t]] = t]
    /\ pc' = [pc EXCEPT ![t] = "open"]
    /\ cached' = [cached EXCEPT ![t] = {}]
    /\ inherited' = [inherited EXCEPT ![t] = KeysOf(guard_of[t])]
    /\ swept' = [swept EXCEPT ![guard_of[t]] = NoSweep]
    /\ UNCHANGED <<calculate_glyph_cache, poisoned, guard_of, queries, computed, answers>>
    /\ UNCHANGED reducerVars
    /\ UNCHANGED builderVars

\* lock() returns Err(PoisonError): unwrap() panics, the lock is given back
lock_poisoned(t) ==
    /\ pc[t] = "waiting"
    /\ mutex[guard_of[t]] = NoThread
    /\ poisoned[guard_of[t]]
    /\ pc' = [pc EXCEPT ![t] = "failed"]
    /\ UNCHANGED <<calculate_glyph_cache, mutex, poisoned, guard_of, cached, queries,
                   computed, answers, inherited, swept>>
    /\ UNCHANGED reducerVars
    /\ UNCHANGED builderVars

\* the panic of a failed cache_scope() is caught; the thread goes on
catch_unwind(t) ==
    /\ pc[t] = "failed"
    /\ pc' = [pc EXCEPT ![t] = "idle"]
    /\ guard_of' = [guard_of EXCEPT ![t] = NoCalc]
    /\ UNCHANGED <<calculate_glyph_cache, mutex, poisoned, cached, queries,
                   computed, answers, inherited, swept>>
    /\ UNCHANGED reducerVars
    /\ UNCHANGED builderVars

(***************************************************************************)
(* GlyphCalculatorGuard: cache_glyphs and the four queries.                *)
(***************************************************************************)
\* cache_glyphs without the Entry::Vacant test: computes and inserts every time
cache_glyphs_always(t, s, l) ==
    LET c == guard_of[t]
        h == section_hash(s, l)
    IN  /\ calculate_glyph_cache' =
                [calculate_glyph_cache EXCEPT ![c] =
                    (h :> GlyphedSection(bounds_rect(s, l), calculate_glyphs(s, l),
                                         section_z(s))) @@ @]
        /\ computed' = [computed EXCEPT ![t][h] = @ + 1]

\* a cache_glyphs that runs the positioner on a miss and stores nothing
cache_glyphs_not_stored(t, s, l) ==
    LET c == guard_of[t]
        h == section_hash(s, l)
    IN  IF h \notin KeysOf(c)
        THEN /\ computed' = [computed EXCEPT ![t][h] = @ + 1]
             /\ UNCHANGED calculate_glyph_cache
        ELSE UNCHANGED <<calculate_glyph_cache, computed>>

\* a cache_glyphs whose map holds one entry: a miss replaces what was stored
cache_glyphs_single_entry(t, s, l) ==
    LET c == guard_of[t]
        h == section_hash(s, l)
    IN  IF h \notin KeysOf(c)
        THEN /\ calculate_glyph_cache' =
                    [calculate_glyph_cache EXCEPT ![c] =
                        (h :> GlyphedSection(bounds_rect(s, l), calculate_glyphs(s, l),
                                             section_z(s)))]
             /\ computed' = [computed EXCEPT ![t][h] = @ + 1]
        ELSE UNCHANGED <<calculate_glyph_cache, computed>>

\* cache_glyphs: the entry is computed and inserted only when vacant
cache_glyphs(t, s, l) ==
    LET c == guard_of[t]
        h == section_hash(s, l)
    IN  IF h \notin KeysOf(c)
        THEN /\ calculate_glyph_cache' =
                    [calculate_glyph_cache EXCEPT ![c] =
                        @ @@ (h :> GlyphedSection(bounds_rect(s, l), calculate_glyphs(s, l),
                                                  section_z(s)))]
             /\ computed' = [computed EXCEPT ![t][h] = @ + 1]
        ELSE UNCHANGED <<calculate_glyph_cache, computed>>

\* what indexing the map by a hash it does not hold gives: a panic message
IndexPanic == <<"no entry found for key">>

\* a query that answers from the section and layout it was asked about, not from
\* the entry stored under the hash
returned_fresh(t, s, l, kind) ==
    LET entry == GlyphedSection(bounds_rect(s, l), calculate_glyphs(s, l), section_z(s))
    IN  IF kind = "pixel_bounds"
        THEN GlyphedSection_pixel_bounds(entry, fptosi)
        ELSE GlyphedSection_glyphs(entry)

\* what a query returns is read from the cache after cache_glyphs
returned(t, s, l, kind) ==
    LET map == calculate_glyph_cache'[guard_of[t]]
        h == section_hash(s, l)
    IN  IF h \notin DOMAIN map
        THEN IndexPanic
        ELSE IF kind = "pixel_bounds"
             THEN GlyphedSection_pixel_bounds(map[h], fptosi)
             ELSE GlyphedSection_glyphs(map[h])

query(t, s, l, kind) ==
    /\ pc[t] = "open"
    /\ queries[t] < MaxQueries
    /\ cache_glyphs(t, s, l)
    /\ cached' = [cached EXCEPT ![t] = @ \cup {section_hash(s, l)}]
    /\ queries' = [queries EXCEPT ![t] = @ + 1]
    /\ answers' = [answers EXCEPT ![t][<<s, l, kind>>] = @ \cup {returned(t, s, l, kind)}]
    /\ UNCHANGED <<mutex, poisoned, pc, guard_of, inherited, swept>>
    /\ UNCHANGED reducerVars
    /\ UNCHANGED builderVars

pixel_bounds_custom_layout(t, s, l) == query(t, s, l, "pixel_bounds")

pixel_bounds(t, s) == pixel_bounds_custom_layout(t, s, section_layout(s))

\* glyphs_custom_layout that inserts its own computation over an occupied entry
glyphs_custom_layout_reinserts(t, s, l) ==
    /\ pc[t] = "open"
    /\ queries[t] < MaxQueries
    /\ cache_glyphs_always(t, s, l)
    /\ cached' = [cached EXCEPT ![t] = @ \cup {section_hash(s, l)}]
    /\ queries' = [queries EXCEPT ![t] = @ + 1]
    /\ answers' = [answers EXCEPT ![t][<<s, l, "glyphs">>] = @ \cup {returned(t, s, l, "glyphs")}]
    /\ UNCHANGED <<mutex, poisoned, pc, guard_of, inherited, swept>>
    /\ UNCHANGED reducerVars
    /\ UNCHANGED builderVars

glyphs_custom_layout(t, s, l) == query(t, s, l, "glyphs")

glyphs(t, s) == glyphs_custom_layout(t, s, section_layout(s))

\* the positioner panics inside cache_glyphs: it runs only for a vacant entry,
\* nothing has been inserted yet, and the thread starts to unwind
positioner_panics(t, s, l) ==
    /\ pc[t] = "open"
    /\ section_hash(s, l) \notin KeysOf(guard_of[t])
    /\ pc' = [pc EXCEPT ![t] = "panicking"]
    /\ UNCHANGED <<calculate_glyph_cache, mutex, poisoned, guard_of, cached, queries,
                   computed, answers, inherited, swept>>
    /\ UNCHANGED reducerVars
    /\ UNCHANGED builderVars

\* the caller panics between queries while it holds the guard
caller_panics(t) ==
    /\ pc[t] = "open"
    /\ pc' = [pc EXCEPT ![t] = "panicking"]
    /\ UNCHANGED <<calculate_glyph_cache, mutex, poisoned, guard_of, cached, queries,
                   computed, answers, inherited, swept>>
    /\ UNCHANGED reducerVars
    /\ UNCHANGED builderVars

(***************************************************************************)
(* Drop for GlyphCalculatorGuard, then the drop of its MutexGuard field:   *)
(* retain the touched keys, poison the Mutex if the thread is panicking,   *)
(* unlock.                                                                 *)
(***************************************************************************)
\* retain with the predicate inverted: keeps what was not touched
retain_untouched(map, keep) == [k \in {k \in DOMAIN map : k \notin keep} |-> map[k]]

retain(map, keep) == [k \in {k \in DOMAIN map : k \in keep} |-> map[k]]

\* a guard without the Drop impl: only the MutexGuard field is dropped
drop_without_retain(t) ==
    /\ pc[t] \in {"open", "panicking"}
    /\ cached' = [cached EXCEPT ![t] = {}]
    /\ poisoned' = [poisoned EXCEPT ![guard_of[t]] = @ \/ pc[t] = "panicking"]
    /\ mutex' = [mutex EXCEPT ![guard_of[t]] = NoThread]
    /\ pc' = [pc EXCEPT ![t] = "idle"]
    /\ swept' = [swept EXCEPT ![guard_of[t]] =
                    [inherited |-> inherited[t], before |-> KeysOf(guard_of[t]),
                     touched |-> cached[t], by |-> t]]
    /\ guard_of' = [guard_of EXCEPT ![t] = NoCalc]
    /\ queries' = [queries EXCEPT ![t] = 0]
    /\ computed' = [computed EXCEPT ![t] = NoRuns]
    /\ answers' = [answers EXCEPT ![t] = NoAnswers]
    /\ inherited' = [inherited EXCEPT ![t] = {}]
    /\ UNCHANGED calculate_glyph_cache
    /\ UNCHANGED reducerVars
    /\ UNCHANGED builderVars

\* a drop that sweeps the cache but never gives the lock back
drop_keeps_lock(t) ==
    /\ pc[t] \in {"open", "panicking"}
    /\ calculate_glyph_cache' =
            [calculate_glyph_cache EXCEPT ![guard_of[t]] = retain(@, cached[t])]
    /\ cached' = [cached EXCEPT ![t] = {}]
    /\ poisoned' = [poisoned EXCEPT ![guard_of[t]] = @ \/ pc[t] = "panicking"]
    /\ pc' = [pc EXCEPT ![t] = "idle"]
    /\ swept' = [swept EXCEPT ![guard_of[t]] =
                    [inherited |-> inherited[t], before |-> KeysOf(guard_of[t]),
                     touched |-> cached[t], by |-> t]]
    /\ guard_of' = [guard_of EXCEPT ![t] = NoCalc]
    /\ queries' = [queries EXCEPT ![t] = 0]
    /\ computed' = [computed EXCEPT ![t] = NoRuns]
    /\ answers' = [answers EXCEPT ![t] = NoAnswers]
    /\ inherited' = [inherited EXCEPT ![t] = {}]
    /\ UNCHANGED mutex
    /\ UNCHANGED reducerVars
    /\ UNCHANGED builderVars

drop(t) ==
    /\ pc[t] \in {"open", "panicking"}
    /\ calculate_glyph_cache' =
            [calculate_glyph_cache EXCEPT ![guard_of[t]] = retain(@, cached[t])]
    /\ cached' = [cached EXCEPT ![t] = {}]
    /\ poisoned' = [poisoned EXCEPT ![guard_of[t]] = @ \/ pc[t] = "panicking"]
    /\ mutex' = [mutex EXCEPT ![guard_of[t]] = NoThread]
    /\ pc' = [pc EXCEPT ![t] = "idle"]
    /\ swept' = [swept EXCEPT ![guard_of[t]] =
                    [inherited |-> inherited[t], before |-> KeysOf(guard_of[t]),
                     touched |-> cached[t], by |-> t]]
    /\ guard_of' = [guard_of EXCEPT ![t] = NoCalc]
    /\ queries' = [queries EXCEPT ![t] = 0]
    /\ computed' = [computed EXCEPT ![t] = NoRuns]
    /\ answers' = [answers EXCEPT ![t] = NoAnswers]
    /\ inherited' = [inherited EXCEPT ![t] = {}]
    /\ UNCHANGED reducerVars
    /\ UNCHANGED builderVars

(***************************************************************************)
(* GlyphCalculatorBuilder: the fonts and the ids they are registered under.*)
(***************************************************************************)
\* font resources, and byte strings that parse to them or fail to parse
Fonts == {"fA", "fB"}

Malformed == "malformed"

FontBytes == Fonts \cup {Malformed}

\* fonts a builder under test may hold
MaxFonts == 3

\* the value of GlyphCalculator.fonts before build() has run
NoFonts == <<>>

SectionHashers == {"DefaultSectionHasher", "custom"}

\* FontId(n)
FontId(n) == n

\* FontMap::insert
FontMap_insert(map, idx, data) == (idx :> data) @@ map

\* using_fonts: the builder holds the given fonts and the default hasher
using_fonts(fs) ==
    /\ stage = "new"
    /\ stage' = "building"
    /\ font_data' = fs
    /\ section_hasher' = "DefaultSectionHasher"
    /\ given' = fs
    /\ UNCHANGED <<fonts, font_ids>>
    /\ UNCHANGED cacheVars
    /\ UNCHANGED reducerVars

\* using_font: using_fonts(vec![font_0_data])
using_font(font_0_data) == using_fonts(<<font_0_data>>)

\* Font::from_bytes(..).unwrap() on bytes that do not parse: the call panics
from_bytes_panics ==
    /\ stage' = "panicked"
    /\ UNCHANGED <<font_data, section_hasher, fonts, given, font_ids>>
    /\ UNCHANGED cacheVars
    /\ UNCHANGED reducerVars

\* using_fonts_bytes: every element is parsed, then using_fonts
using_fonts_bytes(bs) ==
    IF \E i \in 1..Len(bs) : bs[i] = Malformed
    THEN stage = "new" /\ from_bytes_panics
    ELSE using_fonts(bs)

\* using_font_bytes: using_font(Font::from_bytes(font_0_data).unwrap())
using_font_bytes(b) ==
    IF b = Malformed
    THEN stage = "new" /\ from_bytes_panics
    ELSE using_font(b)

\* an add_font that returns the length after the push
add_font_one_based(f) ==
    /\ stage = "building"
    /\ Len(font_data) < MaxFonts
    /\ font_data' = Append(font_data, f)
    /\ font_ids' = Append(font_ids, [id |-> FontId(Len(font_data')), font |-> f])
    /\ UNCHANGED <<stage, section_hasher, fonts, given>>
    /\ UNCHANGED cacheVars
    /\ UNCHANGED reducerVars

\* add_font: push, then FontId(self.font_data.len() - 1)
add_font(f) ==
    /\ stage = "building"
    /\ Len(font_data) < MaxFonts
    /\ font_data' = Append(font_data, f)
    /\ font_ids' = Append(font_ids, [id |-> FontId(Len(font_data') - 1), font |-> f])
    /\ UNCHANGED <<stage, section_hasher, fonts, given>>
    /\ UNCHANGED cacheVars
    /\ UNCHANGED reducerVars

\* add_font_bytes: the bytes are parsed first, then pushed as in add_font
add_font_bytes(b) ==
    IF b = Malformed
    THEN stage = "building" /\ from_bytes_panics
    ELSE add_font(b)

\* GlyphCalculatorBuilder::section_hasher: same fonts, the given hasher
set_section_hasher(h) ==
    /\ stage = "building"
    /\ section_hasher' = h
    /\ UNCHANGED <<stage, font_data, fonts, given, font_ids>>
    /\ UNCHANGED cacheVars
    /\ UNCHANGED reducerVars

\* the loop of build(): fonts.insert(idx, data) over font_data.into_iter().enumerate()
RECURSIVE build_loop(_, _, _)
build_loop(data, idx, map) ==
    IF idx >= Len(data)
    THEN map
    ELSE build_loop(data, idx + 1, FontMap_insert(map, idx, data[idx + 1]))

\* build: consumes the builder; the calculator gets the font map and the hasher
build ==
    /\ stage = "building"
    /\ stage' = "built"
    /\ fonts' = build_loop(font_data, 0, NoFonts)
    /\ font_data' = <<>>
    /\ UNCHANGED <<section_hasher, given, font_ids>>
    /\ UNCHANGED cacheVars
    /\ UNCHANGED reducerVars

\* a calculator built from one font: using_font(fA).build()
OneFontBuilt ==
    /\ stage = "built"
    /\ font_data = <<>>
    /\ section_hasher = "DefaultSectionHasher"
    /\ fonts = build_loop(<<"fA">>, 0, NoFonts)
    /\ given = <<"fA">>
    /\ font_ids = <<>>

\* the reducer's inputs while the cache runs: no section, a defined cast
NoGlyphed == GlyphedSection(Rect(point(Fin(0), Fin(0)), point(Fin(0), Fin(0))), <<>>, 0)

NoOut == [op |-> "none", val |-> None]

\* GlyphCalculatorBuilder::build: an empty cache behind a fresh Mutex
Init ==
    /\ calculate_glyph_cache = [c \in Calcs |-> <<>>]
    /\ mutex = [c \in Calcs |-> NoThread]
    /\ poisoned = [c \in Calcs |-> FALSE]
    /\ pc = [t \in Threads |-> "idle"]
    /\ guard_of = [t \in Threads |-> NoCalc]
    /\ cached = [t \in Threads |-> {}]
    /\ queries = [t \in Threads |-> 0]
    /\ computed = [t \in Threads |-> NoRuns]
    /\ answers = [t \in Threads |-> NoAnswers]
    /\ inherited = [t \in Threads |-> {}]
    /\ swept = [c \in Calcs |-> NoSweep]
    /\ glyphed = NoGlyphed
    /\ fptosi = "saturating"
    /\ out = NoOut
    /\ OneFontBuilt

\* the caller threads work on calculator c1
Next ==
    \E t \in Threads :
        \/ cache_scope(t, "c1")
        \/ lock_ok(t)
        \/ lock_poisoned(t)
        \/ catch_unwind(t)
        \/ \E s \in Sections : pixel_bounds(t, s)
        \/ \E s \in Sections, l \in Layouts : pixel_bounds_custom_layout(t, s, l)
        \/ \E s \in Sections : glyphs(t, s)
        \/ \E s \in Sections, l \in Layouts : glyphs_custom_layout(t, s, l)
        \/ \E s \in Sections, l \in Layouts : positioner_panics(t, s, l)
        \/ caller_panics(t)
        \/ drop(t)

Spec == Init /\ [][Next]_vars

(***************************************************************************)
(* Properties of the cache scope.                                          *)
(***************************************************************************)
InScope == {"open", "panicking"}

\* the step in which thread t's guard is dropped
Released(t) == pc[t] \in InScope /\ pc'[t] \notin InScope

Queries == Sections \X Layouts \X {"pixel_bounds", "glyphs"}

\* the queries thread t has made in its scope
Asked(t) == {q \in Queries : answers[t][q] # {}}

\* C1: when a guard is dropped the cache keeps exactly the touched hashes, with
\* their stored layouts: its key set becomes the touched set, which is the key
\* set before the drop intersected with the touched set; an empty touched set
\* leaves an empty cache.  The sweep is the one step that ends the scope, and
\* no other step removes an entry.
C1_ReleaseRetainsTouched ==
    [][/\ \A t \in Threads :
            Released(t) =>
                LET c == guard_of[t]
                IN  /\ DOMAIN calculate_glyph_cache'[c] = cached[t]
                    /\ DOMAIN calculate_glyph_cache'[c] = KeysOf(c) \cap cached[t]
                    /\ \A h \in cached[t] :
                            calculate_glyph_cache'[c][h] = calculate_glyph_cache[c][h]
                    /\ (cached[t] = {} => calculate_glyph_cache'[c] = <<>>)
                    /\ cached'[t] = {}
                    /\ pc'[t] = "idle"
       /\ \A c \in Calcs :
            ~(KeysOf(c) \subseteq DOMAIN calculate_glyph_cache'[c]) =>
                \E t \in Threads : Released(t) /\ guard_of[t] = c
      ]_vars

\* a drop has swept some entries away and kept others
C1_Witness ==
    \E c \in Calcs :
        /\ swept[c].by # NoThread
        /\ swept[c].touched # {}
        /\ swept[c].before \ swept[c].touched # {}
        /\ KeysOf(c) = swept[c].touched

\* C2: within one scope the positioner runs at most once per hash, whatever
\* sequence of the four query methods is made, and it never runs for a hash
\* that is in the cache when the query is made.
C2_AtMostOneComputation ==
    /\ [](\A t \in Threads : \A h \in Hashes : computed[t][h] <= 1)
    /\ [][\A t \in Threads : \A h \in Hashes :
            computed'[t][h] > computed[t][h] =>
                /\ pc[t] = "open"
                /\ h \notin KeysOf(guard_of[t])]_vars

\* one scope has asked for the same hash through a bounds query and a glyphs
\* query, three queries in all, and the positioner ran once for it
C2_Witness ==
    \E t \in Threads : \E q1 \in Asked(t), q2 \in Asked(t) :
        /\ section_hash(q1[1], q1[2]) = section_hash(q2[1], q2[2])
        /\ q1[3] = "pixel_bounds" /\ q2[3] = "glyphs"
        /\ queries[t] = 3
        /\ computed[t][section_hash(q1[1], q1[2])] = 1

\* C3: a query repeated within one scope returns the same value every time,
\* whatever queries lie in between.
C3_IdempotentResults ==
    \A t \in Threads : \A q \in Queries : Cardinality(answers[t][q]) <= 1

\* a scope made three queries, two of them the same, the third for a colliding pair
C3_Witness ==
    \E t \in Threads :
        /\ queries[t] = 3
        /\ \E q1 \in Asked(t), q2 \in Asked(t) :
            /\ Asked(t) = {q1, q2}
            /\ <<q1[1], q1[2]>> # <<q2[1], q2[2]>>
            /\ section_hash(q1[1], q1[2]) = section_hash(q2[1], q2[2])

\* C4: at most one scope is open on a calculator, its holder is the Mutex's
\* owner, and a thread waiting in cache_scope() while another thread's scope is
\* open on that calculator stays waiting.
C4_MutualExclusion ==
    /\ [](\A t \in Threads : \A u \in Threads :
            (pc[t] \in InScope /\ pc[u] \in InScope /\ guard_of[t] = guard_of[u]) =>
                (t = u /\ mutex[guard_of[t]] = t))
    /\ [][\A t \in Threads :
            (/\ pc[t] = "waiting"
             /\ \E u \in Threads \ {t} : pc[u] \in InScope /\ guard_of[u] = guard_of[t])
            => pc'[t] = "waiting"]_vars

\* one thread holds a scope with entries in it while the other waits in cache_scope()
C4_Witness ==
    \E t \in Threads : \E u \in Threads \ {t} :
        /\ pc[t] = "open" /\ cached[t] # {}
        /\ pc[u] = "waiting" /\ guard_of[u] = guard_of[t]

\* C5: across scopes, an entry the previous scopes left in the cache is reused
\* without a positioner run, an entry that is not there is computed once; after a
\* drop, of the keys the cache held the touched ones are there and the others
\* are not.  A scope that inherits {1, 2} and touches only 1 leaves exactly {1}.
C5_MarkAndSweep ==
    /\ \A t \in Threads :
            pc[t] \in InScope =>
                \A h \in cached[t] :
                    /\ h \in KeysOf(guard_of[t])
                    /\ computed[t][h] = (IF h \in inherited[t] THEN 0 ELSE 1)
    /\ \A c \in Calcs :
            swept[c].by # NoThread =>
                /\ \A h \in swept[c].before : h \in KeysOf(c) <=> h \in swept[c].touched
                /\ KeysOf(c) \subseteq swept[c].before
                /\ (swept[c].inherited = {1, 2} /\ swept[c].touched = {1} => KeysOf(c) = {1})

\* scope A left {1, 2}; scope B reused 1, touched nothing else, and was dropped
C5_Witness ==
    \E c \in Calcs :
        /\ swept[c].by # NoThread
        /\ swept[c].inherited = {1, 2}
        /\ swept[c].touched = {1}
        /\ KeysOf(c) = {1}

MaxGlyphs == 2

\* (min, max) of the declared bounds on one axis
AxisBoundsX ==
    { <<Fin(-3), Fin(5)>>,      \* -1.5 .. 2.5: the integer range -2 .. 3
      <<Fin(0), PInf>>,         \* unbounded above
      <<Fin(4), Fin(-1)>>,      \* 2.0 .. -0.5: min above max
      <<NInf, PInf>>,           \* unbounded on both sides
      <<NaN, Two31>> }          \* casts that are out of range

AxisBoundsY ==
    { <<Fin(-3), Fin(5)>>, <<Fin(0), PInf>>, <<Fin(4), Fin(-1)>> }

\* (min, max) of a glyph's pixel bounding box on one axis, min <= max
AxisBoxX == { <<-4, -3>>, <<-3, -2>>, <<-1, 1>>, <<1, 2>>, <<2, 5>>, <<4, 6>> }

AxisBoxY == { <<-4, -3>>, <<1, 2>>, <<2, 5>> }

GlyphBoxes == {None} \cup {Box(x[1], y[1], x[2], y[2]) : x \in AxisBoxX, y \in AxisBoxY}

BoundsRects ==
    {Rect(point(x[1], y[1]), point(x[2], y[2])) : x \in AxisBoundsX, y \in AxisBoundsY}

GlyphLists ==
    UNION {[1..n -> {Glyph("g", bb) : bb \in GlyphBoxes}] : n \in 0..MaxGlyphs}

CastModes == {"saturating", "indefinite"}

InitReducer ==
    /\ calculate_glyph_cache = [c \in Calcs |-> <<>>]
    /\ mutex = [c \in Calcs |-> NoThread]
    /\ poisoned = [c \in Calcs |-> FALSE]
    /\ pc = [t \in Threads |-> "idle"]
    /\ guard_of = [t \in Threads |-> NoCalc]
    /\ cached = [t \in Threads |-> {}]
    /\ queries = [t \in Threads |-> 0]
    /\ computed = [t \in Threads |-> NoRuns]
    /\ answers = [t \in Threads |-> NoAnswers]
    /\ inherited = [t \in Threads |-> {}]
    /\ swept = [c \in Calcs |-> NoSweep]
    /\ glyphed \in {GlyphedSection(b, gs, 0) : b \in BoundsRects, gs \in GlyphLists}
    /\ fptosi \in CastModes
    /\ out = NoOut
    /\ OneFontBuilt

run_pixel_bounds ==
    /\ out' = [op |-> "pixel_bounds", val |-> GlyphedSection_pixel_bounds(glyphed, fptosi)]
    /\ UNCHANGED <<glyphed, fptosi>>
    /\ UNCHANGED cacheVars
    /\ UNCHANGED builderVars

run_glyphs ==
    /\ out' = [op |-> "glyphs", val |-> GlyphedSection_glyphs(glyphed)]
    /\ UNCHANGED <<glyphed, fptosi>>
    /\ UNCHANGED cacheVars
    /\ UNCHANGED builderVars

NextReducer == run_pixel_bounds \/ run_glyphs

SpecReducer == InitReducer /\ [][NextReducer]_vars

(***************************************************************************)
(* Properties of the reducer, stated without its loop.                     *)
(***************************************************************************)
\* the integer layout rectangle of the section under test
LB == layout_bounds(glyphed.bounds, fptosi)

WellFormed(r) == r.min.x <= r.max.x /\ r.min.y <= r.max.y

\* the pixel boxes of the glyphs that have one
BoxesOf(gs) == {gs[i][1].bb[1] : i \in {j \in 1..Len(gs) : gs[j][1].bb # None}}

StrictlyOutside(lb, r) ==
    \/ r.max.x < lb.min.x
    \/ r.max.y < lb.min.y
    \/ r.min.x > lb.max.x
    \/ r.min.y > lb.max.y

Clamped(lb, r) ==
    Rect(point(IF r.min.x > lb.min.x THEN r.min.x ELSE lb.min.x,
               IF r.min.y > lb.min.y THEN r.min.y ELSE lb.min.y),
         point(IF r.max.x < lb.max.x THEN r.max.x ELSE lb.max.x,
               IF r.max.y < lb.max.y THEN r.max.y ELSE lb.max.y))

Survivors(lb, gs) == {Clamped(lb, r) : r \in {b \in BoxesOf(gs) : ~StrictlyOutside(lb, b)}}

Least(S) == CHOOSE m \in S : \A n \in S : m <= n

Greatest(S) == CHOOSE m \in S : \A n \in S : m >= n

UnionOf(S) ==
    Rect(point(Least({r.min.x : r \in S}), Least({r.min.y : r \in S})),
         point(Greatest({r.max.x : r \in S}), Greatest({r.max.y : r \in S})))

Reordered(gs, p) == [i \in 1..Len(gs) |-> gs[p[i]]]

\* a half-valued f32 bound n/2 against an integer: v >= floor(n/2), v <= ceil(n/2)
AtLeastFloor(v, f) == f.k = "fin" => 2 * v + 2 > f.n

AtMostCeil(v, f) == (f.k = "fin" => 2 * v - 2 < f.n) /\ (f.k = "pinf" => v <= I32_MAX)

\* C7: when the integer layout rectangle is well formed, a box returned by
\* pixel_bounds lies inside it on both axes, so its min is at least the floor of
\* the declared min and its max at most the ceiling of the declared max, and
\* its min is at most its max.
C7_BoundsContainment ==
    (out.op = "pixel_bounds" /\ out.val # None /\ WellFormed(LB)) =>
        LET r == out.val[1]
        IN  /\ r.min.x >= LB.min.x /\ r.min.y >= LB.min.y
            /\ r.max.x <= LB.max.x /\ r.max.y <= LB.max.y
            /\ AtLeastFloor(r.min.x, glyphed.bounds.min.x)
            /\ AtLeastFloor(r.min.y, glyphed.bounds.min.y)
            /\ AtMostCeil(r.max.x, glyphed.bounds.max.x)
            /\ AtMostCeil(r.max.y, glyphed.bounds.max.y)
            /\ WellFormed(r)

\* a box was returned for finite bounds that a glyph overshoots on both sides of
\* one axis: the result was clamped
C7_Witness ==
    /\ out.op = "pixel_bounds" /\ out.val # None /\ WellFormed(LB)
    /\ glyphed.bounds.min.x.k = "fin" /\ glyphed.bounds.max.x.k = "fin"
    /\ \E b \in BoxesOf(glyphed.glyphs) : b.min.x < LB.min.x /\ ~StrictlyOutside(LB, b)
    /\ \E b \in BoxesOf(glyphed.glyphs) : b.max.x > LB.max.x /\ ~StrictlyOutside(LB, b)
    /\ out.val[1].min.x = LB.min.x /\ out.val[1].max.x = LB.max.x

\* C8: pixel_bounds returns None exactly when no glyph box survives the
\* intersection with the layout rectangle, and otherwise the component-wise
\* union of the surviving boxes, each clamped to the rectangle; any reordering of
\* the glyphs gives the same result.
C8_ReducerResult ==
    out.op = "pixel_bounds" =>
        LET S == Survivors(LB, glyphed.glyphs)
        IN  /\ out.val = None <=> S = {}
            /\ S # {} => out.val = Some(UnionOf(S))
            /\ \A p \in Permutations(1..Len(glyphed.glyphs)) :
                    GlyphedSection_pixel_bounds(
                        GlyphedSection(glyphed.bounds, Reordered(glyphed.glyphs, p), glyphed.z),
                        fptosi) = out.val

\* two different boxes survived, a third glyph had no box or was discarded, and
\* the union keeps clear of the origin of the initial accumulator
C8_Witness ==
    /\ out.op = "pixel_bounds" /\ out.val # None
    /\ Cardinality(Survivors(LB, glyphed.glyphs)) = 2
    /\ Len(glyphed.glyphs) = 2
    /\ out.val[1].min.x > 0 /\ out.val[1].min.y > 0
    /\ out.val[1] \notin Survivors(LB, glyphed.glyphs)

\* C9 as claimed, for a well-formed layout rectangle: pixel_bounds returns None
\* whenever every glyph box's intersection with the layout rectangle has zero
\* width or zero height, glyph boxes that only touch the rectangle's edge included.
C9_NoPixelsNoBounds ==
    (/\ out.op = "pixel_bounds"
     /\ WellFormed(LB)
     /\ \A b \in BoxesOf(glyphed.glyphs) :
            \/ IMin(b.max.x, LB.max.x) <= IMax(b.min.x, LB.min.x)
            \/ IMin(b.max.y, LB.max.y) <= IMax(b.min.y, LB.min.y))
    => out.val = None

\* C9 as the code has it: pixel_bounds returns None exactly when every glyph box
\* lies strictly outside the layout rectangle on some axis; a box that touches
\* the rectangle's edge, or overlaps it, makes the result a box, which may have
\* zero width or height.
C9_NoneIffAllStrictlyOutside ==
    out.op = "pixel_bounds" =>
        /\ out.val = None <=>
                \A b \in BoxesOf(glyphed.glyphs) :
                    \/ b.max.x < LB.min.x \/ b.min.x > LB.max.x
                    \/ b.max.y < LB.min.y \/ b.min.y > LB.max.y
        /\ (\E b \in BoxesOf(glyphed.glyphs) :
                /\ b.max.x >= LB.min.x /\ b.min.x <= LB.max.x
                /\ b.max.y >= LB.min.y /\ b.min.y <= LB.max.y
                /\ (b.max.x = LB.min.x \/ b.min.x = LB.max.x
                        \/ b.max.y = LB.min.y \/ b.min.y = LB.max.y))
            => out.val # None

\* the only glyph box touches the left edge of well-formed bounds and a box of
\* zero width came back
C9_Witness ==
    /\ out.op = "pixel_bounds" /\ out.val # None /\ WellFormed(LB)
    /\ \A b \in BoxesOf(glyphed.glyphs) : b.max.x = LB.min.x
    /\ out.val[1].min.x = out.val[1].max.x

\* C10 as claimed, for well-formed bounds: a section without glyphs, or whose
\* glyph boxes all lie strictly outside the bounds, gives None from pixel_bounds
\* and an empty sequence from glyphs.
C10_EmptySection ==
    (/\ WellFormed(LB)
     /\ \/ glyphed.glyphs = <<>>
        \/ \A i \in 1..Len(glyphed.glyphs) :
            /\ glyphed.glyphs[i][1].bb # None
            /\ StrictlyOutside(LB, glyphed.glyphs[i][1].bb[1])) =>
        /\ out.op = "pixel_bounds" => out.val = None
        /\ out.op = "glyphs" => out.val = <<>>

\* C10 as the code has it: such a section gives None from pixel_bounds; glyphs
\* returns every positioned glyph of the section in order, inside the bounds or
\* not, so it is empty only for a section without glyphs.
C10_EmptyBoundsAllGlyphs ==
    /\ (out.op = "pixel_bounds"
            /\ \A b \in BoxesOf(glyphed.glyphs) : StrictlyOutside(LB, b))
        => out.val = None
    /\ out.op = "glyphs" =>
        /\ Len(out.val) = Len(glyphed.glyphs)
        /\ \A i \in 1..Len(glyphed.glyphs) : out.val[i] = glyphed.glyphs[i][1]
        /\ out.val = <<>> <=> glyphed.glyphs = <<>>

\* glyphs returned two glyphs whose boxes lie strictly outside the bounds
C10_Witness ==
    /\ out.op = "glyphs"
    /\ WellFormed(LB)
    /\ Len(out.val) = 2
    /\ BoxesOf(glyphed.glyphs) # {}
    /\ \A b \in BoxesOf(glyphed.glyphs) : StrictlyOutside(LB, b)
    /\ GlyphedSection_pixel_bounds(glyphed, fptosi) = None

(***************************************************************************)
(* Hash collisions, the frame of a query, and the handoff between scopes.  *)
(***************************************************************************)
\* the entry the cache of thread t's calculator holds for query q
StoredFor(t, q) == calculate_glyph_cache[guard_of[t]][section_hash(q[1], q[2])]

\* the entry the positioner would produce for query q
FreshFor(q) == GlyphedSection(bounds_rect(q[1], q[2]), calculate_glyphs(q[1], q[2]),
                              section_z(q[1]))

\* what a query of the given kind derives from an entry
ViewOf(entry, kind) ==
    IF kind = "pixel_bounds"
    THEN GlyphedSection_pixel_bounds(entry, fptosi)
    ELSE GlyphedSection_glyphs(entry)

\* C11: hash collisions are accepted.  Every answer a scope has given is the view
\* of the entry stored under the query's hash, also when that entry was inserted
\* for a different section and layout with the same hash; a query that finds its
\* hash in the cache runs no positioner, replaces no stored entry and raises no
\* error.
C11_AcceptedCollision ==
    /\ [](\A t \in Threads :
            pc[t] \in InScope =>
                \A q \in Asked(t) :
                    /\ section_hash(q[1], q[2]) \in KeysOf(guard_of[t])
                    /\ answers[t][q] = {ViewOf(StoredFor(t, q), q[3])})
    /\ [][\A t \in Threads :
            (queries'[t] = queries[t] + 1) =>
                LET c == guard_of[t]
                IN  /\ \A h \in KeysOf(c) :
                            /\ h \in DOMAIN calculate_glyph_cache'[c]
                            /\ calculate_glyph_cache'[c][h] = calculate_glyph_cache[c][h]
                            /\ computed'[t][h] = computed[t][h]
                    /\ pc'[t] = "open"
                    /\ poisoned' = poisoned
      ]_vars

\* (s1, l2) and (s2, l2) share hash 2: a scope has asked for the glyphs of
\* (s2, l2) while the entry of (s1, l2) was stored, and got the glyphs of (s1, l2)
C11_Witness ==
    \E t \in Threads :
        LET q == <<"s2", "l2", "glyphs">>
        IN  /\ pc[t] = "open"
            /\ section_hash("s1", "l2") = section_hash("s2", "l2")
            /\ FreshFor(<<"s1", "l2", "glyphs">>) # FreshFor(q)
            /\ q \in Asked(t)
            /\ StoredFor(t, q) = FreshFor(<<"s1", "l2", "glyphs">>)
            /\ answers[t][q] = {GlyphedSection_glyphs(FreshFor(<<"s1", "l2", "glyphs">>))}
            /\ answers[t][q] # {GlyphedSection_glyphs(FreshFor(q))}

\* the keys a step adds to calculator c's cache
Added(c) == DOMAIN calculate_glyph_cache'[c] \ KeysOf(c)

\* C13: the frame of a query.  A query step of a scope on calculator c touches
\* one hash; on a hit the cache is unchanged and only the touched set may grow
\* by that hash; on a miss exactly one entry is added, under that hash, by one
\* positioner run, and every other entry stays as it was.  No step of an open
\* scope that does not end it removes an entry or changes a stored layout, and
\* a query changes neither the lock nor any other thread's scope.
C13_QueryFrame ==
    [][\A t \in Threads :
        /\ (queries'[t] = queries[t] + 1) =>
                LET c == guard_of[t]
                IN  \E h \in Hashes :
                        /\ cached'[t] = cached[t] \cup {h}
                        /\ h \in DOMAIN calculate_glyph_cache'[c]
                        /\ IF h \in KeysOf(c)
                           THEN /\ calculate_glyph_cache' = calculate_glyph_cache
                                /\ computed' = computed
                           ELSE /\ Added(c) = {h}
                                /\ computed'[t] = [computed[t] EXCEPT ![h] = @ + 1]
                        /\ \A k \in KeysOf(c) :
                                /\ k \in DOMAIN calculate_glyph_cache'[c]
                                /\ calculate_glyph_cache'[c][k] = calculate_glyph_cache[c][k]
                        /\ \A d \in Calcs \ {c} :
                                calculate_glyph_cache'[d] = calculate_glyph_cache[d]
                        /\ \A u \in Threads \ {t} :
                                cached'[u] = cached[u] /\ computed'[u] = computed[u]
                        /\ UNCHANGED <<mutex, poisoned, pc, guard_of>>
        /\ (pc[t] \in InScope /\ pc'[t] \in InScope) =>
                \A k \in KeysOf(guard_of[t]) :
                    /\ k \in DOMAIN calculate_glyph_cache'[guard_of[t]]
                    /\ calculate_glyph_cache'[guard_of[t]][k] =
                            calculate_glyph_cache[guard_of[t]][k]
      ]_vars

\* an open scope that inherited two entries has had a hit on one of them and a
\* miss that added a third, and the entry it did not touch is still stored
C13_Witness ==
    \E t \in Threads :
        /\ pc[t] = "open"
        /\ Cardinality(inherited[t]) = 2
        /\ \E h \in inherited[t] : h \in cached[t] /\ computed[t][h] = 0
        /\ \E h \in cached[t] : h \notin inherited[t] /\ computed[t][h] = 1
        /\ \E h \in inherited[t] : h \notin cached[t]
        /\ inherited[t] \subseteq KeysOf(guard_of[t])
        /\ Cardinality(KeysOf(guard_of[t])) = 3

\* C14: handoff between scopes.  A calculator's cache changes only in a step of
\* the thread that holds its lock with an open scope (a query or the release),
\* never while the lock is free, so the scope that opens next finds exactly what
\* the last release left: the entries that release retained.  Opening a scope
\* changes no cache, and the new scope's touched set is empty.
C14_ScopeHandoff ==
    [][/\ \A c \in Calcs :
            /\ mutex[c] = NoThread => calculate_glyph_cache'[c] = calculate_glyph_cache[c]
            /\ calculate_glyph_cache'[c] # calculate_glyph_cache[c] =>
                    LET h == mutex[c]
                    IN  /\ h \in Threads
                        /\ pc[h] \in InScope
                        /\ guard_of[h] = c
                        /\ queries'[h] = queries[h] + 1 \/ Released(h)
                        /\ \A u \in Threads \ {h} :
                                /\ pc'[u] = pc[u]
                                /\ queries'[u] = queries[u]
                                /\ cached'[u] = cached[u]
       /\ \A t \in Threads :
            (pc[t] = "waiting" /\ pc'[t] = "open") =>
                LET c == guard_of[t]
                IN  /\ cached'[t] = {}
                    /\ queries'[t] = 0
                    /\ computed'[t] = NoRuns
                    /\ calculate_glyph_cache' = calculate_glyph_cache
                    /\ inherited'[t] = KeysOf(c)
                    /\ swept[c].by # NoThread => KeysOf(c) = swept[c].touched
      ]_vars

\* a scope has just opened over entries an earlier scope left behind, with an
\* empty touched set, while the other thread is already waiting for its turn
C14_Witness ==
    \E t \in Threads :
        /\ pc[t] = "open"
        /\ mutex[guard_of[t]] = t
        /\ queries[t] = 0
        /\ cached[t] = {}
        /\ inherited[t] # {}
        /\ KeysOf(guard_of[t]) = inherited[t]
        /\ \E u \in Threads \ {t} : pc[u] = "waiting" /\ guard_of[u] = guard_of[t]

\* C17: while a scope is open every hash in its touched set has an entry in the
\* cache, and so does the hash of every query it has answered, so the lookup
\* that follows cache_glyphs finds its entry; every touched hash was asked for
\* in this scope; and the step that releases the scope keeps an entry for each
\* touched hash: as many entries as the touched set has hashes.
C17_TouchedSubsetOfKeys ==
    /\ [](\A t \in Threads :
            pc[t] \in InScope =>
                /\ cached[t] \subseteq KeysOf(guard_of[t])
                /\ mutex[guard_of[t]] = t
                /\ \A q \in Asked(t) : section_hash(q[1], q[2]) \in cached[t]
                /\ \A h \in cached[t] : \E q \in Asked(t) : section_hash(q[1], q[2]) = h)
    /\ [][\A t \in Threads :
            Released(t) =>
                /\ cached[t] \subseteq DOMAIN calculate_glyph_cache'[guard_of[t]]
                /\ Cardinality(DOMAIN calculate_glyph_cache'[guard_of[t]]) =
                        Cardinality(cached[t])
      ]_vars

\* an open scope has touched two hashes, one it inherited and one it computed,
\* and both are stored next to an entry it has not touched
C17_Witness ==
    \E t \in Threads :
        /\ pc[t] = "open"
        /\ Cardinality(cached[t]) = 2
        /\ cached[t] \cap inherited[t] # {}
        /\ cached[t] \ inherited[t] # {}
        /\ cached[t] \subseteq KeysOf(guard_of[t])
        /\ KeysOf(guard_of[t]) \ cached[t] # {}

(***************************************************************************)
(* Progress.  Every scope that is opened is dropped, and the lock is fair: *)
(* a waiting cache_scope() call that could return again and again does.    *)
(***************************************************************************)
SpecFair ==
    /\ Init
    /\ [][Next]_vars
    /\ \A t \in Threads :
            /\ WF_vars(drop(t))
            /\ SF_vars(lock_ok(t))
            /\ SF_vars(lock_poisoned(t))

SeqUpTo(S, n) == UNION {[1..m -> S] : m \in 0..n}

\* no builder yet; no calculator, so no scope is ever opened
InitBuilder ==
    /\ calculate_glyph_cache = [c \in Calcs |-> <<>>]
    /\ mutex = [c \in Calcs |-> NoThread]
    /\ poisoned = [c \in Calcs |-> FALSE]
    /\ pc = [t \in Threads |-> "idle"]
    /\ guard_of = [t \in Threads |-> NoCalc]
    /\ cached = [t \in Threads |-> {}]
    /\ queries = [t \in Threads |-> 0]
    /\ computed = [t \in Threads |-> NoRuns]
    /\ answers = [t \in Threads |-> NoAnswers]
    /\ inherited = [t \in Threads |-> {}]
    /\ swept = [c \in Calcs |-> NoSweep]
    /\ glyphed = NoGlyphed
    /\ fptosi = "saturating"
    /\ out = NoOut
    /\ stage = "new"
    /\ font_data = <<>>
    /\ section_hasher = "DefaultSectionHasher"
    /\ fonts = NoFonts
    /\ given = <<>>
    /\ font_ids = <<>>

NextBuilder ==
    \/ \E b \in FontBytes : using_font_bytes(b)
    \/ \E bs \in SeqUpTo(FontBytes, MaxFonts - 1) : using_fonts_bytes(bs)
    \/ \E f \in Fonts : using_font(f)
    \/ \E fs \in SeqUpTo(Fonts, MaxFonts - 1) : using_fonts(fs)
    \/ \E b \in FontBytes : add_font_bytes(b)
    \/ \E f \in Fonts : add_font(f)
    \/ \E h \in SectionHashers : set_section_hasher(h)
    \/ build

SpecBuilder == InitBuilder /\ [][NextBuilder]_vars

\* the fonts registered so far, in the order the calls supplied them
Supplied == given \o [k \in 1..Len(font_ids) |-> font_ids[k].font]

\* C12: the fonts given at construction have ids 0..n-1 in the order given; the
\* k-th add_font / add_font_bytes call returns the number of fonts registered
\* before it, which is greater than every id assigned before; and build()
\* registers the i-th font under id i, so that every returned id maps to the
\* font its call added.
C12_FontIds ==
    /\ \A k \in 1..Len(font_ids) :
            /\ font_ids[k].id = Len(given) + k - 1
            /\ \A j \in 1..(k - 1) : font_ids[j].id < font_ids[k].id
            /\ \A i \in 0..(Len(given) - 1) : i < font_ids[k].id
    /\ stage = "building" =>
            /\ font_data = Supplied
            /\ \A k \in 1..Len(font_ids) : font_data[font_ids[k].id + 1] = font_ids[k].font
    /\ stage = "built" =>
            /\ DOMAIN fonts = 0..(Len(Supplied) - 1)
            /\ \A i \in 0..(Len(given) - 1) : fonts[i] = given[i + 1]
            /\ \A i \in 0..(Len(Supplied) - 1) : fonts[i] = Supplied[i + 1]
            /\ \A k \in 1..Len(font_ids) : fonts[font_ids[k].id] = font_ids[k].font

\* built from two given fonts and one added later, which got id 2
C12_Witness ==
    /\ stage = "built"
    /\ given = <<"fA", "fB">>
    /\ font_ids = <<[id |-> 2, font |-> "fA"]>>
    /\ fonts[0] = "fA" /\ fonts[1] = "fB" /\ fonts[2] = "fA"

(***************************************************************************)
(* Two calculators: each thread may open its scope on either one, and      *)
(* queries sections with their own layout.                                 *)
(***************************************************************************)
NextCalcs ==
    \E t \in Threads :
        \/ \E c \in Calcs : cache_scope(t, c)
        \/ lock_ok(t)
        \/ lock_poisoned(t)
        \/ catch_unwind(t)
        \/ \E s \in Sections : pixel_bounds(t, s)
        \/ \E s \in Sections : glyphs(t, s)
        \/ \E s \in Sections : positioner_panics(t, s, section_layout(s))
        \/ caller_panics(t)
        \/ drop(t)

SpecCalcs == Init /\ [][NextCalcs]_vars

\* thread t takes the step
Acts(t) == pc'[t] # pc[t] \/ queries'[t] # queries[t]

\* the calculator a step of thread t works on
CalcOfStep(t) == IF guard_of[t] # NoCalc THEN guard_of[t] ELSE guard_of'[t]

\* C16: calculators are independent.  A cache_scope() call on calculator Y can
\* return whenever Y's own lock is free, whatever scopes are open on other
\* calculators, and Y's lock is held only by a scope on Y; a step of a thread
\* working on calculator X (opening, querying, panicking, releasing) leaves the
\* cache, the lock and the poison flag of every other calculator unchanged.
C16_IndependentCalculators ==
    /\ [](/\ \A t \in Threads :
                (pc[t] = "waiting" /\ mutex[guard_of[t]] = NoThread) =>
                    ENABLED (lock_ok(t) \/ lock_poisoned(t))
          /\ \A c \in Calcs :
                mutex[c] # NoThread => pc[mutex[c]] \in InScope /\ guard_of[mutex[c]] = c)
    /\ [][\A t \in Threads :
            Acts(t) =>
                \A y \in Calcs \ {CalcOfStep(t)} :
                    /\ calculate_glyph_cache'[y] = calculate_glyph_cache[y]
                    /\ mutex'[y] = mutex[y]
                    /\ poisoned'[y] = poisoned[y]
      ]_vars

\* both threads hold open, queried scopes at once, on different calculators
\* whose caches differ
C16_Witness ==
    \E t \in Threads, u \in Threads :
        /\ pc[t] = "open" /\ pc[u] = "open"
        /\ guard_of[t] # guard_of[u]
        /\ mutex[guard_of[t]] = t /\ mutex[guard_of[u]] = u
        /\ queries[t] > 0 /\ queries[u] > 0
        /\ KeysOf(guard_of[t]) # KeysOf(guard_of[u])
        /\ inherited[t] # {}

(***************************************************************************)
(* The integer layout rectangle.                                           *)
(***************************************************************************)
\* integer v is the floor of the float f
IsFloorOf(v, f) == f.k = "fin" /\ f.n - 2 < 2 * v /\ 2 * v <= f.n

\* integer v is the ceiling of the float f
IsCeilOf(v, f) == f.k = "fin" /\ f.n <= 2 * v /\ 2 * v < f.n + 2

\* the float's ceiling is above i32::MAX
CeilAboveMax(f) == f.k \in {"two31", "big", "pinf"}

\* the float lies below i32::MIN
BelowMin(f) == f.k \in {"negbig", "ninf"}

\* the glyph boxes are neither discarded nor clamped on the x axis's max side
MaxSideKeptX(lb, gs) ==
    \A b \in BoxesOf(gs) : ~(b.min.x > lb.max.x) /\ Clamped(lb, b).max.x = b.max.x

\* the glyph boxes are neither discarded nor clamped on the x axis's min side
MinSideKeptX(lb, gs) ==
    \A b \in BoxesOf(gs) : ~(b.max.x < lb.min.x) /\ Clamped(lb, b).min.x = b.min.x

\* C18: where the cast of an out-of-range float is defined and no declared bound
\* is NaN, the layout rectangle's min corner is the floor of the declared min,
\* and its max corner is the ceiling of the declared max, or i32::MAX when that
\* ceiling is above i32::MAX; with an infinite max no glyph box is discarded or
\* clamped on the max side.
C18_FloorAndClampedCeil ==
    (/\ out.op = "pixel_bounds"
     /\ fptosi = "saturating"
     /\ \A f \in {glyphed.bounds.min.x, glyphed.bounds.min.y,
                  glyphed.bounds.max.x, glyphed.bounds.max.y} : f.k # "nan") =>
        /\ IsFloorOf(LB.min.x, glyphed.bounds.min.x)
        /\ IsFloorOf(LB.min.y, glyphed.bounds.min.y)
        /\ IF CeilAboveMax(glyphed.bounds.max.x)
           THEN LB.max.x = I32_MAX
           ELSE IsCeilOf(LB.max.x, glyphed.bounds.max.x)
        /\ IF CeilAboveMax(glyphed.bounds.max.y)
           THEN LB.max.y = I32_MAX
           ELSE IsCeilOf(LB.max.y, glyphed.bounds.max.y)
        /\ glyphed.bounds.max.x.k = "pinf" => MaxSideKeptX(LB, glyphed.glyphs)

\* what the code gives for a declared min f: its floor when that is an i32,
\* i32::MIN below the range, and what the cast makes of the rest
MinCornerOf(v, f) ==
    CASE f.k = "fin" -> IsFloorOf(v, f)
      [] BelowMin(f) -> v = I32_MIN
      [] f.k = "nan" -> (fptosi = "saturating" => v = 0)
      [] OTHER -> (fptosi = "saturating" => v = I32_MAX)

\* what the code gives for a declared max f: its ceiling when that is an i32,
\* i32::MAX above 2^31, i32::MIN below the range, and what the cast makes of
\* the rest
MaxCornerOf(v, f) ==
    CASE f.k = "fin" -> IsCeilOf(v, f)
      [] f.k \in {"big", "pinf"} -> v = I32_MAX
      [] BelowMin(f) -> v = I32_MIN
      [] f.k = "nan" -> (fptosi = "saturating" => v = 0)
      [] OTHER -> (fptosi = "saturating" => v = I32_MAX)

\* C18 as the code has it: the min corner is the floor of the declared min and
\* the max corner the ceiling of the declared max where these are i32 values; a
\* ceiling above 2^31, infinite included, is clamped to i32::MAX; a floor or
\* ceiling below i32::MIN, negative infinity included, becomes i32::MIN; a
\* ceiling of exactly 2^31, a floor above i32::MAX and NaN go through the cast
\* and give i32::MAX, i32::MAX and 0 where the cast saturates.  With an infinite
\* max no glyph box is discarded or clamped on the max side, and with a
\* negative-infinite min none is on the min side.
C18_FloorCeilWithinI32 ==
    out.op = "pixel_bounds" =>
        /\ MinCornerOf(LB.min.x, glyphed.bounds.min.x)
        /\ MinCornerOf(LB.min.y, glyphed.bounds.min.y)
        /\ MaxCornerOf(LB.max.x, glyphed.bounds.max.x)
        /\ MaxCornerOf(LB.max.y, glyphed.bounds.max.y)
        /\ glyphed.bounds.max.x.k = "pinf" => MaxSideKeptX(LB, glyphed.glyphs)
        /\ glyphed.bounds.min.x.k = "ninf" => MinSideKeptX(LB, glyphed.glyphs)
        /\ (glyphed.bounds.max.x.k = "pinf" /\ glyphed.bounds.min.x.k = "ninf"
            /\ out.val # None) =>
                LET kept == {b \in BoxesOf(glyphed.glyphs) : ~StrictlyOutside(LB, b)}
                IN  /\ out.val[1].min.x = Least({b.min.x : b \in kept})
                    /\ out.val[1].max.x = Greatest({b.max.x : b \in kept})

\* bounds unbounded on both sides in x: the layout rectangle spans i32::MIN to
\* i32::MAX there, and the leftmost and the rightmost glyph box come back whole
C18_Witness ==
    /\ out.op = "pixel_bounds"
    /\ glyphed.bounds.min.x = NInf
    /\ glyphed.bounds.max.x = PInf
    /\ LB.min.x = I32_MIN
    /\ LB.max.x = I32_MAX
    /\ Len(glyphed.glyphs) = 2
    /\ out.val # None
    /\ out.val[1].min.x = -4
    /\ out.val[1].max.x = 6

====
